---- MODULE Spec2Model ----
(***************************************************************************)
(* A model of om_shutters.py (class OpenMoticsShutter): the time-window    *)
(* parser, the history file, the rise/shut decision and the trigger loop.  *)
(*                                                                         *)
(* Time is counted in ticks; a second has TicksPerSecond ticks, so that    *)
(* datetime.now() carries a sub-second part which strftime('%S') drops.    *)
(* Strings are sequences of one-character strings.                         *)
(***************************************************************************)
EXTENDS Integers, Sequences, FiniteSets, TLC

(* ------------------------------ bounds --------------------------------- *)

\* Resolution of the clock: ticks in one second.
TicksPerSecond == 2

\* Number of scheduler invocations of run() that are explored.
MaxRuns == 3

(* ------------------------------- time ---------------------------------- *)

Second == TicksPerSecond
Minute == 60 * Second
Hour == 60 * Minute
Day == 24 * Hour

\* Python's None where a datetime is expected; an exception leaving a function.
None == 0 - 1
Raised == 0 - 2

\* datetime(h, m) on calendar day d, as ticks.
At(d, h, m) == d * Day + h * Hour + m * Minute

\* time.sleep(SLEEP_BETWEEN_SHUTTERS), in seconds.
SLEEP_BETWEEN_SHUTTERS == 3

\* timedelta(hours=20)
HistoryHours == 20

\* Largest value of a C int: the "i" argument format of datetime(...).
CIntMax == 2147483647

(* ------------------------------ strings -------------------------------- *)

Digits == <<"0", "1", "2", "3", "4", "5", "6", "7", "8", "9">>

IsDigit(c) == \E i \in 1..10 : Digits[i] = c

DigitVal(c) == (CHOOSE i \in 1..10 : Digits[i] = c) - 1

\* A JSON value of the configuration: null, or a string.
JsonNull == [null |-> TRUE, s |-> <<>>]
Str(s) == [null |-> FALSE, s |-> s]

\* Python truthiness of a None-or-string value: "if not value".
Falsy(value) == value.null \/ value.s = <<>>

\* Index of the first ":" of s, 0 if there is none.
FirstColon(s) ==
  IF \E i \in 1..Len(s) : s[i] = ":"
  THEN CHOOSE i \in 1..Len(s) : s[i] = ":" /\ \A j \in 1..(i - 1) : s[j] # ":"
  ELSE 0

\* value.split(":", 1): at most one split, at the first colon.
Split1(s) ==
  LET i == FirstColon(s)
  IN  IF i = 0 THEN <<s>>
      ELSE <<SubSeq(s, 1, i - 1), SubSeq(s, i + 1, Len(s))>>

\* int(val) raises ValueError unless val is a non-empty run of digits
\* (the alphabet modelled has no sign and no blank).
IsIntLiteral(s) == Len(s) > 0 /\ \A i \in 1..Len(s) : IsDigit(s[i])

\* The value of a digit string when it fits a C int, else None: Python's int is
\* unbounded, and datetime() is where a value beyond a C int is rejected.
RECURSIVE IntValue(_)
IntValue(s) ==
  IF s = <<>> THEN 0
  ELSE LET hi == IntValue(SubSeq(s, 1, Len(s) - 1))
           d  == DigitVal(s[Len(s)])
       IN  IF hi = None \/ hi > (CIntMax - d) \div 10 THEN None
           ELSE hi * 10 + d

(* ---------------------------- date strings ----------------------------- *)

\* date.strftime('%Y-%m-%dT%H:%M:%S+00:00'): the fields of the string; the
\* sub-second part of the datetime is not written.
_write_date(date) ==
  [day    |-> date \div Day,
   hour   |-> (date % Day) \div Hour,
   minute |-> (date % Hour) \div Minute,
   second |-> (date % Minute) \div Second]

\* datetime.strptime(date, '%Y-%m-%dT%H:%M:%S+00:00')
_read_date(str) ==
  str.day * Day + str.hour * Hour + str.minute * Minute + str.second * Second

(* --------------------------- the program state ------------------------- *)

VARIABLES
  shutters,        \* self.shutters: room -> [up, down, auto_up, auto_down, earliest_up, latest_down]
  roomOrder,       \* the order in which self.shutters.iteritems() yields the rooms
  dry_run,         \* self.dry_run
  tzOffset,        \* hours Europe/Brussels is ahead of UTC on the run's date (1 or 2)
  clock,           \* what datetime.now() returns
  history,         \* the content of history.json: output -> date string
  pc,              \* where run() is: "idle", "rise", "shut", "aborted"
  idx,             \* position of _trigger_all_blinds in its list
  local_now_dt,    \* run(): local_now_dt
  sunrise_dt,      \* run(): sunrise_dt
  sunset_dt,       \* run(): sunset_dt
  blinds_to_rise,  \* run(): blinds_to_rise
  blinds_to_shut,  \* run(): blinds_to_shut
  calls,           \* every self.api.set_output(output, True) made, in order
  nSleeps,         \* number of time.sleep(SLEEP_BETWEEN_SHUTTERS) made
  lastResult,      \* how the last step of run() ended
  runs,            \* number of run() invocations started
  budget           \* number of run() invocations the scheduler still makes

vars == <<shutters, roomOrder, dry_run, tzOffset, clock, history, pc, idx,
          local_now_dt, sunrise_dt, sunset_dt, blinds_to_rise, blinds_to_shut,
          calls, nSleeps, lastResult, runs, budget>>

Rooms == {"living", "bed"}

Range(f) == {f[i] : i \in DOMAIN f}

(* -------------------------- Time Window Parser ------------------------- *)

\* _parse_hour_minute: None for an absent value and for a ValueError (no second
\* part, a non-numeric part, an hour or minute out of range); an hour or minute
\* beyond a C int makes datetime() raise OverflowError, which is not caught.
_parse_hour_minute(now_dt, value) ==
  IF Falsy(value) THEN None
  ELSE LET parts == Split1(value.s)
       IN  IF \E i \in 1..Len(parts) : ~IsIntLiteral(parts[i]) THEN None
           ELSE IF Len(parts) # 2 THEN None
           ELSE LET hour   == IntValue(parts[1])
                    minute == IntValue(parts[2])
                IN  IF hour = None \/ minute = None THEN Raised
                    ELSE IF hour > 23 \/ minute > 59 THEN None
                    ELSE At(now_dt \div Day, hour, minute) - tzOffset * Hour

(* ----------------------------- History Store --------------------------- *)

\* Mutant of _check_history: the boundary instant counts as past the window.
_check_history_inclusive(output, date) ==
  LET last_set == IF output \in DOMAIN history THEN _read_date(history[output])
                  ELSE None
  IN  last_set = None \/ date >= last_set + HistoryHours * Hour

\* Mutant of _check_history: the 20 hours are not added.
_check_history_no_window(output, date) ==
  LET last_set == IF output \in DOMAIN history THEN _read_date(history[output])
                  ELSE None
  IN  last_set = None \/ date > last_set

\* _check_history: TRUE when the output may be triggered (no entry, or the
\* entry is more than 20 hours before date).
_check_history(output, date) ==
  LET last_set == IF output \in DOMAIN history THEN _read_date(history[output])
                  ELSE None
  IN  last_set = None \/ date > last_set + HistoryHours * Hour

\* _add_history: the file after history[str(output)] = date.
_add_history(output, date) ==
  [k \in DOMAIN history \cup {output} |->
     IF k = output THEN date ELSE history[k]]

(* ----------------------------- Decision Engine ------------------------- *)

\* Mutant of RiseRoom: auto_up is not looked at.
RiseRoomNoFlag(room, now_dt) ==
  LET cfg == shutters[room]
      earliest_up_dt == _parse_hour_minute(now_dt, cfg.earliest_up)
  IN  IF earliest_up_dt = Raised THEN "raise"
      ELSE IF earliest_up_dt # None /\ earliest_up_dt > now_dt THEN "skip"
      ELSE "append"

\* The body of the loop of _find_blinds_to_rise for one room: "skip", "append"
\* or "raise".
RiseRoom(room, now_dt) ==
  LET cfg == shutters[room]
      earliest_up_dt == _parse_hour_minute(now_dt, cfg.earliest_up)
  IN  IF ~cfg.auto_up THEN "skip"
      ELSE IF earliest_up_dt = Raised THEN "raise"
      ELSE IF earliest_up_dt # None /\ earliest_up_dt > now_dt THEN "skip"
      ELSE "append"

\* Mutant of ShutRoom: the sunset gate is tested before latest_down.
ShutRoomSunsetFirst(room, sunset, now_dt) ==
  LET cfg == shutters[room]
      is_sunset == sunset <= now_dt
      latest_down_dt == _parse_hour_minute(now_dt, cfg.latest_down)
  IN  IF ~cfg.auto_down THEN "skip"
      ELSE IF ~is_sunset THEN "skip"
      ELSE IF latest_down_dt = Raised THEN "raise"
      ELSE "append"

\* The body of the loop of _find_blinds_to_shut for one room.
ShutRoom(room, sunset, now_dt) ==
  LET cfg == shutters[room]
      is_sunset == sunset <= now_dt
      latest_down_dt == _parse_hour_minute(now_dt, cfg.latest_down)
  IN  IF ~cfg.auto_down THEN "skip"
      ELSE IF latest_down_dt = Raised THEN "raise"
      ELSE IF latest_down_dt # None /\ latest_down_dt < now_dt THEN "append"
      ELSE IF ~is_sunset THEN "skip"
      ELSE "append"

\* The list a loop over the rooms builds, given each room's verdict and output.
RECURSIVE Collect(_, _, _)
Collect(order, verdict, out) ==
  IF order = <<>> THEN <<>>
  ELSE LET room == Head(order)
           rest == Collect(Tail(order), verdict, out)
       IN  IF verdict[room] = "append" THEN <<(<<room, out[room]>>)>> \o rest
           ELSE rest

\* Mutant of _find_blinds_to_rise: no sunrise gate.
_find_blinds_to_rise_no_gate(sunrise, now_dt) ==
  LET verdict == [r \in Rooms |-> RiseRoom(r, now_dt)]
  IN  IF \E r \in Rooms : verdict[r] = "raise"
      THEN [raised |-> TRUE, list |-> <<>>]
      ELSE [raised |-> FALSE,
            list |-> Collect(roomOrder, verdict, [r \in Rooms |-> shutters[r].up])]

\* _find_blinds_to_rise: the list, or raised when a room's parse raises.
_find_blinds_to_rise(sunrise, now_dt) ==
  LET is_sunrise == sunrise <= now_dt
      verdict == [r \in Rooms |-> RiseRoom(r, now_dt)]
  IN  IF ~is_sunrise THEN [raised |-> FALSE, list |-> <<>>]
      ELSE IF \E r \in Rooms : verdict[r] = "raise"
           THEN [raised |-> TRUE, list |-> <<>>]
      ELSE [raised |-> FALSE,
            list |-> Collect(roomOrder, verdict, [r \in Rooms |-> shutters[r].up])]

\* _find_blinds_to_shut
_find_blinds_to_shut(sunset, now_dt) ==
  LET verdict == [r \in Rooms |-> ShutRoom(r, sunset, now_dt)]
  IN  IF \E r \in Rooms : verdict[r] = "raise"
      THEN [raised |-> TRUE, list |-> <<>>]
      ELSE [raised |-> FALSE,
            list |-> Collect(roomOrder, verdict, [r \in Rooms |-> shutters[r].down])]

(* ----------------------------- Trigger Executor ------------------------ *)

\* Mutant of _trigger_blinds: dry_run is not looked at.
_trigger_blinds_no_dry(output, local_now) ==
  IF ~_check_history(output, local_now) THEN "recent" ELSE "call"

\* _trigger_blinds, lines 110-116: which branch is taken for an output at
\* local_now: "recent" (already triggered), "dry" (dry run) or "call".
_trigger_blinds(output, local_now) ==
  IF ~_check_history(output, local_now) THEN "recent"
  ELSE IF dry_run # FALSE THEN "dry"
  ELSE "call"

\* Mutant of HistoryAfter: the entry is written before the device call.
HistoryAfterAlways(output, local_now, ok) ==
  _add_history(output, _write_date(local_now))

\* _trigger_blinds, lines 117-118: the file after the device call; the entry
\* is written only when set_output returned.
HistoryAfter(output, local_now, ok) ==
  IF ok THEN _add_history(output, _write_date(local_now)) ELSE history

\* Mutant of PacingDelay: the sleep is outside the if.
PacingDelayAlways(triggered) == SLEEP_BETWEEN_SHUTTERS

\* _trigger_all_blinds, lines 123-125: the seconds slept after _trigger_blinds
\* returned triggered.
PacingDelay(triggered) ==
  IF triggered THEN SLEEP_BETWEEN_SHUTTERS ELSE 0

\* The list _trigger_all_blinds is iterating.
CurrentList == IF pc = "rise" THEN blinds_to_rise ELSE blinds_to_shut

\* One iteration of the loop of _trigger_all_blinds: _trigger_blinds for the
\* pair at idx and, when it returns True, the pacing sleep. set_output either
\* returns or raises; a raise leaves run() and ends the process.
_trigger_all_blinds ==
  /\ pc \in {"rise", "shut"}
  /\ idx <= Len(CurrentList)
  /\ LET room      == CurrentList[idx][1]
         output    == CurrentList[idx][2]
         local_now == clock
         branch    == _trigger_blinds(output, local_now)
     IN  \E ok \in (IF branch = "call" THEN BOOLEAN ELSE {FALSE}) :
           LET triggered == branch = "call" /\ ok
               raised    == branch = "call" /\ ~ok
               delay     == PacingDelay(triggered)
           IN  /\ calls' = IF branch = "call"
                           THEN Append(calls, [room |-> room, output |-> output,
                                               list |-> pc, at |-> local_now,
                                               ok |-> ok, run |-> runs])
                           ELSE calls
               /\ history' = IF branch = "call"
                             THEN HistoryAfter(output, local_now, ok)
                             ELSE history
               /\ pc' = IF raised THEN "aborted" ELSE pc
               /\ idx' = IF raised THEN idx ELSE idx + 1
               /\ clock' = IF raised THEN clock ELSE clock + delay * Second
               /\ nSleeps' = IF ~raised /\ delay > 0 THEN nSleeps + 1 ELSE nSleeps
               /\ lastResult' = IF triggered THEN "triggered"
                                ELSE IF raised THEN "ApiException"
                                ELSE branch
  /\ UNCHANGED <<shutters, roomOrder, dry_run, tzOffset, local_now_dt,
                 sunrise_dt, sunset_dt, blinds_to_rise, blinds_to_shut,
                 runs, budget>>

(* ----------------------------- Run Orchestrator ------------------------ *)

\* Time between the end of one invocation and the start of the next.
RunGaps ==
  {12 * Hour,
   HistoryHours * Hour - SLEEP_BETWEEN_SHUTTERS * Second,
   HistoryHours * Hour - SLEEP_BETWEEN_SHUTTERS * Second + 1}

\* The answer of the sunrise/sunset lookup for the calendar day of now_dt.
Lookup(now_dt) ==
  [sunrise |-> At(now_dt \div Day, 6, 0), sunset |-> At(now_dt \div Day, 18, 0)]

\* run(), lines 189-208: the scheduler starts the program, which reads the
\* clock, looks the sun times up (a failed lookup raises) and finds the blinds
\* to rise.
RunStart ==
  /\ pc \in {"idle", "aborted"}
  /\ budget > 0
  /\ \E gap \in (IF runs = 0 THEN {0} ELSE RunGaps), lookupOk \in BOOLEAN :
       LET now  == clock + gap
           sun  == Lookup(now)
           rise == _find_blinds_to_rise(sun.sunrise, now)
       IN  /\ clock' = now
           /\ local_now_dt' = now
           /\ sunrise_dt' = IF lookupOk THEN sun.sunrise ELSE None
           /\ sunset_dt' = IF lookupOk THEN sun.sunset ELSE None
           /\ blinds_to_rise' = IF lookupOk THEN rise.list ELSE <<>>
           /\ pc' = IF lookupOk /\ ~rise.raised THEN "rise" ELSE "aborted"
           /\ lastResult' = IF ~lookupOk THEN "LookupError"
                            ELSE IF rise.raised THEN "OverflowError in rise"
                            ELSE "started"
  /\ blinds_to_shut' = <<>>
  /\ idx' = 1
  /\ runs' = runs + 1
  /\ budget' = budget - 1
  /\ UNCHANGED <<shutters, roomOrder, dry_run, tzOffset, history, calls,
                 nSleeps>>

\* run(), line 210: the rise list is done; find the blinds to shut.
RiseDone ==
  /\ pc = "rise"
  /\ idx > Len(blinds_to_rise)
  /\ LET shut == _find_blinds_to_shut(sunset_dt, local_now_dt)
     IN  /\ blinds_to_shut' = shut.list
         /\ pc' = IF shut.raised THEN "aborted" ELSE "shut"
         /\ lastResult' = IF shut.raised THEN "OverflowError in shut"
                          ELSE "decided"
  /\ idx' = 1
  /\ UNCHANGED <<shutters, roomOrder, dry_run, tzOffset, clock, history,
                 local_now_dt, sunrise_dt, sunset_dt, blinds_to_rise, calls,
                 nSleeps, runs, budget>>

\* run(), lines 218-220: the shut list is done; the program ends.
Finished ==
  /\ pc = "shut"
  /\ idx > Len(blinds_to_shut)
  /\ pc' = "idle"
  /\ lastResult' = "finished"
  /\ UNCHANGED <<shutters, roomOrder, dry_run, tzOffset, clock, history, idx,
                 local_now_dt, sunrise_dt, sunset_dt, blinds_to_rise,
                 blinds_to_shut, calls, nSleeps, runs, budget>>

(* ------------------------------ configurations ------------------------- *)

S_7_30  == <<"7", ":", "3", "0">>
S_17_00 == <<"1", "7", ":", "0", "0">>
S_20_00 == <<"2", "0", ":", "0", "0">>
S_24_00 == <<"2", "4", ":", "0", "0">>
S_7_60  == <<"7", ":", "6", "0">>
S_x_30  == <<"x", ":", "3", "0">>
S_730   == <<"7", "3", "0">>
S_7_30_00 == <<"7", ":", "3", "0", ":", "0", "0">>
S_big_00 == <<"2", "1", "4", "7", "4", "8", "3", "6", "4", "8", ":", "0", "0">>

Room(up, down, auto_up, auto_down, earliest_up, latest_down) ==
  [up |-> up, down |-> down, auto_up |-> auto_up, auto_down |-> auto_down,
   earliest_up |-> earliest_up, latest_down |-> latest_down]

RoomOrders == {<<"living", "bed">>, <<"bed", "living">>}

\* Configurations of the runs. The rooms may share output 1: as the up output
\* of both, or as the up output of one and the down output of the other.
RunConfigs ==
  {[living |-> Room(1, 2, au1, ad1, eu, ld),
    bed    |-> Room(o[1], o[2], au2, ad2, JsonNull, JsonNull)] :
     au1 \in BOOLEAN, ad1 \in BOOLEAN, au2 \in BOOLEAN, ad2 \in BOOLEAN,
     eu \in {JsonNull, Str(S_7_30)}, ld \in {JsonNull, Str(S_17_00)},
     o \in {<<1, 3>>, <<3, 1>>, <<3, 4>>}}

\* History files found at the first run: empty, or output 1 triggered the day
\* before at 10:00:00.
RunHistories == {<<>>, (1 :> _write_date(At(0, 10, 0)))}

RunStartTimes == {At(1, 6, 0), At(1, 6, 0) + 1, At(1, 18, 0)}

TypeOK ==
  /\ pc \in {"idle", "rise", "shut", "aborted"}
  /\ dry_run \in BOOLEAN
  /\ idx \in 1..(Cardinality(Rooms) + 1)

InitWith(configs, dryRuns, zones, clocks, histories, n) ==
  /\ shutters \in configs
  /\ roomOrder \in RoomOrders
  /\ dry_run \in dryRuns
  /\ tzOffset \in zones
  /\ clock \in clocks
  /\ history \in histories
  /\ pc = "idle"
  /\ idx = 1
  /\ local_now_dt = None
  /\ sunrise_dt = None
  /\ sunset_dt = None
  /\ blinds_to_rise = <<>>
  /\ blinds_to_shut = <<>>
  /\ calls = <<>>
  /\ nSleeps = 0
  /\ lastResult = "none"
  /\ runs = 0
  /\ budget = n

Init == InitWith(RunConfigs, BOOLEAN, {1}, RunStartTimes, RunHistories, MaxRuns)

Next == RunStart \/ _trigger_all_blinds \/ RiseDone \/ Finished

Spec == Init /\ [][Next]_vars

\* The decision engine on its own: one dry run from an empty history, over a
\* wider set of configurations and clock readings.
UpValues ==
  {JsonNull, Str(<<>>), Str(S_7_30), Str(S_x_30), Str(S_24_00), Str(S_730),
   Str(S_7_30_00), Str(S_big_00)}

DownValues ==
  {JsonNull, Str(S_17_00), Str(S_20_00), Str(S_7_60), Str(S_big_00)}

DecideConfigs ==
  {[living |-> Room(1, 2, au1, ad1, eu, ld),
    bed    |-> Room(3, 4, au2, ad2, ov[1], ov[2])] :
     au1 \in BOOLEAN, ad1 \in BOOLEAN, au2 \in BOOLEAN, ad2 \in BOOLEAN,
     eu \in UpValues, ld \in DownValues,
     ov \in {<<JsonNull, JsonNull>>, <<Str(S_7_30), Str(S_17_00)>>}}

NowChoices ==
  {At(1, 5, 45), At(1, 6, 0), At(1, 6, 30) - 1, At(1, 6, 30), At(1, 6, 30) + 1,
   At(1, 16, 0), At(1, 16, 0) + 1, At(1, 18, 0), At(1, 19, 30)}

InitDecide == InitWith(DecideConfigs, {TRUE}, {1, 2}, NowChoices, {<<>>}, 1)

SpecDecide == InitDecide /\ [][Next]_vars

(* ------------------------------ properties ---------------------------- *)

RoomsOf(list) == {list[i][1] : i \in DOMAIN list}

Outputs == {shutters[r].up : r \in Rooms} \cup {shutters[r].down : r \in Rooms}

\* was_triggered_recently of the History Store: the negation of _check_history.
WasTriggeredRecently(output, t) == ~_check_history(output, t)

\* t without its sub-second part.
WholeSecond(t) == t - (t % Second)

Window == HistoryHours * Hour

\* Index in calls of the last successful trigger of output, 0 if there is none.
LastOk(output) ==
  LET I == {i \in DOMAIN calls : calls[i].output = output /\ calls[i].ok}
  IN  IF I = {} THEN 0 ELSE CHOOSE i \in I : \A j \in I : j <= i

\* Instants around the end of the window that starts at t.
Probes(t) ==
  {t, t + 1, WholeSecond(t) + Window - 1, WholeSecond(t) + Window,
   WholeSecond(t) + Window + 1, t + Window, t + Window + 1, t + 2 * Window}

\* The pair the last _trigger_all_blinds handled.
LastPair == CurrentList[idx - 1]

\* A step that makes a device-control call.
NewCall == Len(calls') = Len(calls) + 1

\* _find_blinds_to_rise returned in the current run.
RiseReturned ==
  /\ runs > 0
  /\ lastResult \notin {"LookupError", "OverflowError in rise"}

\* _find_blinds_to_shut returned in the current run.
ShutReturned == pc = "shut" \/ (pc = "idle" /\ runs > 0)

EarliestUp(r) == _parse_hour_minute(local_now_dt, shutters[r].earliest_up)
LatestDown(r) == _parse_hour_minute(local_now_dt, shutters[r].latest_down)
Parsed(d) == d # None /\ d # Raised

(* C1. No output is activated within 20 hours of the instant recorded for its
   previous successful trigger: a device call for an output is made only when
   the history file has no entry for it or the call's instant is later than
   the entry plus 20 hours; and within one run an output is activated at most
   once, however often it occurs in the rise and shut lists. *)
C1_NoRetriggerWithin20h ==
  /\ [][NewCall =>
          LET c == calls'[Len(calls')]
          IN  \/ c.output \notin DOMAIN history
              \/ c.at > _read_date(history[c.output]) + Window]_vars
  /\ [](\A i, j \in DOMAIN calls :
          (i < j /\ calls[i].output = calls[j].output /\ calls[i].ok) =>
             /\ calls[j].at > _read_date(_write_date(calls[i].at)) + Window
             /\ calls[i].run # calls[j].run)

\* An output that was triggered earlier in this run comes up again in the
\* run's lists and is skipped as recently triggered.
C1_Witness ==
  /\ pc \in {"rise", "shut"}
  /\ idx > 1
  /\ lastResult = "recent"
  /\ \E i \in DOMAIN calls :
       calls[i].run = runs /\ calls[i].ok /\ calls[i].output = LastPair[2]

(* C2. With dry_run true no step of a run calls the device-control capability
   or changes the history file. *)
C2_DryRunNoEffect ==
  [][dry_run => (calls' = calls /\ history' = history)]_vars

\* A dry run reached a pair that the history does not suppress, with a
\* non-empty history file.
C2_Witness ==
  /\ dry_run
  /\ lastResult = "dry"
  /\ pc = "shut"
  /\ history # <<>>

(* C3. Each iteration of trigger_all on a pair: when the pair is skipped
   (recently triggered, or dry run) there is no device call, no history write
   and no sleep; otherwise there is exactly one device call, for the pair's
   output, and, when the call returns, exactly one history write, of the
   pair's output at the instant read, and one 3-second sleep. *)
C3_OneCallOneWritePerTrigger ==
  [][(pc \in {"rise", "shut"} /\ idx <= Len(CurrentList)) =>
       LET output  == CurrentList[idx][2]
           skipped == dry_run \/ WasTriggeredRecently(output, clock)
       IN  IF skipped
           THEN /\ calls' = calls
                /\ history' = history
                /\ nSleeps' = nSleeps
                /\ clock' = clock
                /\ lastResult' # "triggered"
           ELSE /\ Len(calls') = Len(calls) + 1
                /\ SubSeq(calls', 1, Len(calls)) = calls
                /\ calls'[Len(calls')].output = output
                /\ IF calls'[Len(calls')].ok
                   THEN /\ lastResult' = "triggered"
                        /\ DOMAIN history' = DOMAIN history \cup {output}
                        /\ history'[output] = _write_date(clock)
                        /\ \A k \in DOMAIN history \ {output} :
                             history'[k] = history[k]
                        /\ nSleeps' = nSleeps + 1
                        /\ clock' = clock + SLEEP_BETWEEN_SHUTTERS * Second
                   ELSE /\ history' = history
                        /\ nSleeps' = nSleeps
                        /\ clock' = clock]_vars

\* One run has triggered a pair and skipped another as recently triggered.
C3_Witness ==
  /\ ~dry_run
  /\ lastResult = "recent"
  /\ nSleeps > 0
  /\ \E i \in DOMAIN calls : calls[i].run = runs /\ calls[i].ok

(* C4 as stated. After record_trigger(output, t), with t the instant the
   trigger executor read, was_triggered_recently(output, t2) is true for
   t <= t2 <= t + 20h and false for t2 > t + 20h; false without an entry. *)
C4_AsStated ==
  \A o \in Outputs :
    IF LastOk(o) = 0
    THEN o \notin DOMAIN history => \A t2 \in Probes(clock) : ~WasTriggeredRecently(o, t2)
    ELSE LET t == calls[LastOk(o)].at
         IN  \A t2 \in Probes(t) :
               /\ (t <= t2 /\ t2 <= t + Window) => WasTriggeredRecently(o, t2)
               /\ t2 > t + Window => ~WasTriggeredRecently(o, t2)

(* C4 amended. The window is counted from t without its sub-second part, the
   instant that is written: after record_trigger(output, t),
   was_triggered_recently(output, t2) is true for t <= t2 <= s + 20h and false
   for t2 > s + 20h, where s is t cut to whole seconds; false without an
   entry. *)
C4_WindowFromWrittenSecond ==
  \A o \in Outputs :
    IF LastOk(o) = 0
    THEN o \notin DOMAIN history => \A t2 \in Probes(clock) : ~WasTriggeredRecently(o, t2)
    ELSE LET t == calls[LastOk(o)].at
             s == WholeSecond(t)
         IN  \A t2 \in Probes(t) :
               /\ (t <= t2 /\ t2 <= s + Window) => WasTriggeredRecently(o, t2)
               /\ t2 > s + Window => ~WasTriggeredRecently(o, t2)

\* An output was triggered at an instant with a sub-second part.
C4_Witness ==
  \E o \in Outputs :
    /\ LastOk(o) # 0
    /\ calls[LastOk(o)].at % Second # 0
    /\ history[o] = _write_date(calls[LastOk(o)].at)

(* C5 as stated. was_triggered_recently(output, t) is false immediately after
   record_trigger(output, t). *)
C5_AsStated ==
  \A o \in Outputs :
    LastOk(o) # 0 => ~WasTriggeredRecently(o, calls[LastOk(o)].at)

(* C5 amended. was_triggered_recently(output, t) is true immediately after
   record_trigger(output, t). *)
C5_RecentRightAfterRecord ==
  \A o \in Outputs :
    LastOk(o) # 0 => WasTriggeredRecently(o, calls[LastOk(o)].at)

\* An output has just been triggered and recorded.
C5_Witness ==
  /\ lastResult = "triggered"
  /\ LastOk(LastPair[2]) = Len(calls)

C7_NoRiseBeforeSunrise ==
  (runs > 0 /\ sunrise_dt # None /\ local_now_dt < sunrise_dt) =>
     /\ blinds_to_rise = <<>>
     /\ lastResult # "OverflowError in rise"

\* Before sunrise, a room with auto_up whose earliest_up has already passed.
C7_Witness ==
  /\ runs > 0
  /\ sunrise_dt # None
  /\ local_now_dt < sunrise_dt
  /\ \E r \in Rooms :
       /\ shutters[r].auto_up
       /\ Parsed(EarliestUp(r))
       /\ EarliestUp(r) <= local_now_dt

(* C8. Once local_now >= sunrise_utc: a room whose earliest_up parses to an
   instant strictly after local_now is not in rise_list; a room with auto_up
   whose earliest_up equals local_now, is absent or fails to parse is in
   rise_list. *)
C8_EarliestUpOnlyDelays ==
  (runs > 0 /\ sunrise_dt # None /\ sunrise_dt <= local_now_dt) =>
    \A r \in Rooms :
      /\ (Parsed(EarliestUp(r)) /\ EarliestUp(r) > local_now_dt) =>
            r \notin RoomsOf(blinds_to_rise)
      /\ (shutters[r].auto_up
            /\ (~Parsed(EarliestUp(r)) \/ EarliestUp(r) = local_now_dt)) =>
            r \in RoomsOf(blinds_to_rise)

(* C9 as stated. A room with auto_up false is never in rise_list and one with
   auto_down false never in shut_list; hence no device-control call is ever
   made for that room's output of that direction. *)
C9_AsStated ==
  \A r \in Rooms :
    /\ ~shutters[r].auto_up =>
         /\ r \notin RoomsOf(blinds_to_rise)
         /\ \A i \in DOMAIN calls : calls[i].output # shutters[r].up
    /\ ~shutters[r].auto_down =>
         /\ r \notin RoomsOf(blinds_to_shut)
         /\ \A i \in DOMAIN calls : calls[i].output # shutters[r].down

(* C9 amended. A room with auto_up false is never in rise_list and one with
   auto_down false never in shut_list; hence no device-control call is ever
   made on behalf of that room in that direction (its output can still be
   activated through another room, or the other direction, that uses the same
   output). *)
C9_DisabledRoomNeverListed ==
  \A r \in Rooms :
    /\ ~shutters[r].auto_up =>
         /\ r \notin RoomsOf(blinds_to_rise)
         /\ \A i \in DOMAIN calls : ~(calls[i].room = r /\ calls[i].list = "rise")
    /\ ~shutters[r].auto_down =>
         /\ r \notin RoomsOf(blinds_to_shut)
         /\ \A i \in DOMAIN calls : ~(calls[i].room = r /\ calls[i].list = "shut")

\* After sunrise a room with auto_up false, with an earliest_up that has
\* passed, while the other room's blind was raised.
C9_Witness ==
  /\ pc = "rise"
  /\ \E r \in Rooms :
       /\ ~shutters[r].auto_up
       /\ Parsed(EarliestUp(r))
       /\ EarliestUp(r) <= local_now_dt
       /\ \E i \in DOMAIN calls : calls[i].run = runs /\ calls[i].room # r

(* C10. A failed device-control call aborts the run: it is the last call of
   its run; every history entry written by a successful trigger remains, and
   nothing else was written; the failing output's entry is as it was, so that
   the output is still not suppressed. *)
C10_FailedCallAbortsRun ==
  /\ \A i, j \in DOMAIN calls :
       (i < j /\ calls[i].run = calls[j].run) => calls[i].ok
  /\ lastResult = "ApiException" =>
       (pc = "aborted" /\ ~calls[Len(calls)].ok)
  /\ \A o \in Outputs :
       IF LastOk(o) # 0
       THEN o \in DOMAIN history /\ history[o] = _write_date(calls[LastOk(o)].at)
       ELSE o \in DOMAIN history =>
              \E h \in RunHistories : o \in DOMAIN h /\ history[o] = h[o]
  /\ \A i \in DOMAIN calls :
       (~calls[i].ok /\ LastOk(calls[i].output) < i) =>
          ~WasTriggeredRecently(calls[i].output, clock)

\* The device call failed for a pair after another pair of the same run had
\* been triggered.
C10_Witness ==
  /\ lastResult = "ApiException"
  /\ \E i \in DOMAIN calls : calls[i].run = runs /\ calls[i].ok
  /\ calls[Len(calls)].output \in DOMAIN history

====
